---- MODULE Spec2Model ----
(***************************************************************************)
(* Model of task-priority-system.py: validate_tasks, calculate_priority,   *)
(* assign_priorities, sort_tasks_by_priority, display_tasks and main.      *)
(*                                                                         *)
(* Python values are records [t, v, s]: t is the Python type, v the        *)
(* numeric payload and s the text payload.  A float carries its value in   *)
(* hundredths (v = 250 is 2.5); only floats that are exact in binary are   *)
(* used as inputs.  A task (a dict) is a function from the keys it has to  *)
(* values, and a task list is a sequence of tasks.                         *)
(***************************************************************************)
EXTENDS Integers, Sequences, FiniteSets, TLC

VARIABLES
    tasks,          \* main: the list `tasks` (scored in place)
    pc,             \* position in main / in the caller of the functions
    valid,          \* result of validate_tasks: "unset", "true", "false"
    examined,       \* number of loop iterations validate_tasks ran
    sorted_tasks,   \* main: `sorted_tasks`
    out,            \* standard output, one entry per printed line
    calls,          \* arguments of every calculate_priority invocation
    tasks0,         \* the task list as supplied
    scored1,        \* the list after the first assign_priorities
    applied,        \* number of assign_priorities applications
    arg_duration,   \* calculate_priority: argument `duration`
    arg_urgency,    \* calculate_priority: argument `urgency`
    result          \* calculate_priority: returned value, in hundredths

vars == <<tasks, pc, valid, examined, sorted_tasks, out, calls, tasks0,
          scored1, applied, arg_duration, arg_urgency, result>>

----------------------------------------------------------------------------
(* Bounds *)

MaxTasks == 3       \* longest task list given to main
MaxApiLen == 4      \* longest valid list given to the scorer and sorter
MaxApply == 3       \* assign_priorities applications on one list
MaxDur == 130       \* integer durations 1..MaxDur given to calculate_priority

----------------------------------------------------------------------------
(* Python values *)

PyInt(n) == [t |-> "int", v |-> n, s |-> ""]
PyBool(n) == [t |-> "bool", v |-> n, s |-> ""]
PyFloat(h) == [t |-> "float", v |-> h, s |-> ""]
PyStr(x) == [t |-> "str", v |-> 0, s |-> x]
PyNone == [t |-> "none", v |-> 0, s |-> ""]
Absent == [t |-> "absent", v |-> 0, s |-> ""]

\* the exception 60 / duration raises when duration is 0
ZeroDivisionError == [t |-> "raised", v |-> 0, s |-> "ZeroDivisionError"]

\* isinstance(x, (int, float)); bool is a subclass of int
IsIntOrFloat(x) == x.t \in {"int", "bool", "float"}

\* isinstance(x, int); bool is a subclass of int
IsInt(x) == x.t \in {"int", "bool"}

\* the numeric value of an int, bool or float, in hundredths
Hundredths(x) == IF x.t = "float" THEN x.v ELSE 100 * x.v

----------------------------------------------------------------------------
(* Double-precision arithmetic of calculate_priority.                      *)
(* A double keeps 53 significant bits.  The operators below follow the     *)
(* three roundings of `round(urgency * 2 + (60 / duration), 2)` exactly,   *)
(* for 60/duration = num/den in lowest terms with den up to 20000,         *)
(* keeping only the residues that decide each rounding.                    *)

RECURSIVE Pow2(_)
Pow2(k) == IF k = 0 THEN 1 ELSE 2 * Pow2(k - 1)

\* (x * 2^k) mod m, four bits at a time and then one at a time
RECURSIVE ShiftMod(_, _, _)
ShiftMod(x, k, m) ==
    IF k = 0 THEN x % m
    ELSE IF k >= 4 THEN ShiftMod((16 * x) % m, k - 4, m)
    ELSE ShiftMod((2 * x) % m, k - 1, m)

\* floor(log2(num/den)) for num/den >= 1
RECURSIVE Log2Up(_, _)
Log2Up(num, den) == IF num < 2 * den THEN 0 ELSE 1 + Log2Up(num, 2 * den)

\* floor(log2(num/den)) for any positive num/den
RECURSIVE Log2(_, _)
Log2(num, den) == IF num >= den THEN Log2Up(num, den) ELSE Log2(2 * num, den) - 1

\* greatest common divisor, to reduce num/den to lowest terms
RECURSIVE Gcd(_, _)
Gcd(a, b) == IF b = 0 THEN a ELSE Gcd(b, a % b)

Sign(x) == IF x > 0 THEN 1 ELSE IF x < 0 THEN -1 ELSE 0

\* 60 / duration: the double nearest to num/den, ties to even.  The double
\* is (floor(num * 2^e / den) + up) * 2^(-e); low(j) gives the low j bits
\* of the floor, rem the remainder of the division.
FloatDiv(num, den) ==
    LET e == 52 - Log2(num, den)
        rem == ShiftMod(num, e, den)
        odd == ShiftMod(num, e, 2 * den) \div den
        up == IF 2 * rem > den \/ (2 * rem = den /\ odd = 1) THEN 1 ELSE 0
    IN  [e |-> e, rem |-> rem, up |-> up]

\* urgency * 2 + (60 / duration): the double nearest to c + t, ties to
\* even, where t = FloatDiv(num, den).  Returns the sign of
\* (the double) - (c + num/den), the error of the whole expression.
FloatAddErr(c, num, den) ==
    LET t == FloatDiv(num, den)
        k == 52 - Log2(c * den + num, den)      \* ulp of the sum is 2^(-k)
        j == t.e - k                            \* bits of t below that ulp
        w == (ShiftMod(num, t.e, den * Pow2(j + 1)) \div den) + t.up
        low == w % Pow2(j)
        hiodd == (w \div Pow2(j)) % 2
        up == IF 2 * low > Pow2(j) \/ (2 * low = Pow2(j) /\ hiodd = 1)
              THEN 1 ELSE 0
    IN  Sign(up * Pow2(j) * den - (low - t.up) * den - t.rem)

\* round(x, 2) for the double x = c + num/den + err: the multiple of 0.01
\* nearest to the exact binary value of x, ties to even (in hundredths).
\* The error of a double is far smaller than the distance 1/(2*den) of a
\* non-tie from the nearest tie, so it only decides exact decimal ties.
Round2(c, num, den, err) ==
    LET hn == 100 * (c * den + num)
        hf == hn \div den
        hr == hn % den
    IN  IF 2 * hr < den THEN hf
        ELSE IF 2 * hr > den THEN hf + 1
        ELSE IF err > 0 THEN hf + 1
        ELSE IF err < 0 THEN hf
        ELSE IF hf % 2 = 0 THEN hf ELSE hf + 1

\* 60 / duration as the fraction num/den in lowest terms
Ratio(duration) ==
    LET g == Gcd(6000, Hundredths(duration))
    IN  [num |-> 6000 \div g, den |-> Hundredths(duration) \div g]

\* calculate_priority rounding the decimal value half-up
calculate_priority_halfup(duration, urgency) ==
    LET c == urgency.v * 2
        r == Ratio(duration)
        hn == 100 * (c * r.den + r.num)
    IN  PyFloat((2 * hn + r.den) \div (2 * r.den))

\* calculate_priority(duration, urgency) for duration >= 0: a float in
\* hundredths, or the exception raised
calculate_priority(duration, urgency) ==
    LET c == urgency.v * 2
        r == Ratio(duration)
    IN  IF Hundredths(duration) = 0 THEN ZeroDivisionError
        ELSE PyFloat(Round2(c, r.num, r.den, FloatAddErr(c, r.num, r.den)))

----------------------------------------------------------------------------
(* Tasks and printed lines *)

RequiredKeys == {"name", "duration", "urgency"}

\* the dict {"name": nm, "duration": d, "urgency": u}, leaving out Absent fields
Task(nm, d, u) ==
    LET f == [name |-> nm, duration |-> d, urgency |-> u]
    IN  [k \in {x \in RequiredKeys : f[x] # Absent} |-> f[k]]

\* the dict `task` after task["priority"] = p
WithPriority(task, p) ==
    [k \in DOMAIN task \cup {"priority"} |-> IF k = "priority" THEN p ELSE task[k]]

\* one line on standard output
Line(kind, arg) == [kind |-> kind, arg |-> arg]

\* the task line with ranks counted from 0
TaskLine_zero_based(i, task) ==
    Line("task", [rank |-> i - 1, name |-> task["name"], urgency |-> task["urgency"],
                  duration |-> task["duration"], priority |-> task["priority"]])

\* the line display_tasks prints for the task at 1-based position i
TaskLine(i, task) ==
    Line("task", [rank |-> i, name |-> task["name"], urgency |-> task["urgency"],
                  duration |-> task["duration"], priority |-> task["priority"]])

----------------------------------------------------------------------------
(* validate_tasks *)

\* the key check also rejecting an empty or non-text name
MissingKeys_or_empty_name(task) ==
    \/ ~(\A key \in RequiredKeys : key \in DOMAIN task)
    \/ task["name"].t # "str"
    \/ task["name"].s = ""

MissingKeys(task) == ~(\A key \in RequiredKeys : key \in DOMAIN task)

\* the duration check with `< 0` for `<= 0`
InvalidDuration_negative_only(task) ==
    ~IsIntOrFloat(task["duration"]) \/ Hundredths(task["duration"]) < 0

InvalidDuration(task) ==
    ~IsIntOrFloat(task["duration"]) \/ Hundredths(task["duration"]) <= 0

\* the urgency check with `< 5` for `<= 5`
InvalidUrgency_below5(task) ==
    ~IsInt(task["urgency"]) \/ ~(1 <= task["urgency"].v /\ task["urgency"].v < 5)

InvalidUrgency(task) ==
    ~IsInt(task["urgency"]) \/ ~(1 <= task["urgency"].v /\ task["urgency"].v <= 5)

\* the loop with the urgency check placed before the duration check
RECURSIVE ValidateFrom_urgency_first(_, _)
ValidateFrom_urgency_first(ts, i) ==
    IF i > Len(ts) THEN [ok |-> TRUE, printed |-> <<>>, examined |-> Len(ts)]
    ELSE IF MissingKeys(ts[i])
         THEN [ok |-> FALSE, printed |-> <<Line("missing_keys", ts[i])>>, examined |-> i]
    ELSE IF InvalidUrgency(ts[i])
         THEN [ok |-> FALSE, printed |-> <<Line("invalid_urgency", ts[i]["name"])>>,
               examined |-> i]
    ELSE IF InvalidDuration(ts[i])
         THEN [ok |-> FALSE, printed |-> <<Line("invalid_duration", ts[i]["name"])>>,
               examined |-> i]
    ELSE ValidateFrom_urgency_first(ts, i + 1)

\* the loop of validate_tasks from the task at position i on: the returned
\* boolean, the lines printed and the number of tasks the loop looked at
RECURSIVE ValidateFrom(_, _)
ValidateFrom(ts, i) ==
    IF i > Len(ts) THEN [ok |-> TRUE, printed |-> <<>>, examined |-> Len(ts)]
    ELSE IF MissingKeys(ts[i])
         THEN [ok |-> FALSE, printed |-> <<Line("missing_keys", ts[i])>>, examined |-> i]
    ELSE IF InvalidDuration(ts[i])
         THEN [ok |-> FALSE, printed |-> <<Line("invalid_duration", ts[i]["name"])>>,
               examined |-> i]
    ELSE IF InvalidUrgency(ts[i])
         THEN [ok |-> FALSE, printed |-> <<Line("invalid_urgency", ts[i]["name"])>>,
               examined |-> i]
    ELSE ValidateFrom(ts, i + 1)

validate_tasks(ts) == ValidateFrom(ts, 1)

----------------------------------------------------------------------------
(* assign_priorities *)

\* the priority written as the old priority plus the score
PriorityAdded(task) ==
    LET p == calculate_priority(task["duration"], task["urgency"])
    IN  IF "priority" \in DOMAIN task /\ p # ZeroDivisionError
        THEN PyFloat(task["priority"].v + p.v) ELSE p

RECURSIVE AssignFrom_accumulating(_, _)
AssignFrom_accumulating(ts, i) ==
    IF i > Len(ts) THEN [tasks |-> ts, raised |-> FALSE, ncalls |-> Len(ts)]
    ELSE IF PriorityAdded(ts[i]) = ZeroDivisionError
         THEN [tasks |-> ts, raised |-> TRUE, ncalls |-> i]
    ELSE AssignFrom_accumulating(
             [ts EXCEPT ![i] = WithPriority(ts[i], PriorityAdded(ts[i]))], i + 1)

\* the loop of assign_priorities from the task at position i on: the list
\* with the priorities written so far, whether calculate_priority raised,
\* and the number of calculate_priority invocations
RECURSIVE AssignFrom(_, _)
AssignFrom(ts, i) ==
    IF i > Len(ts) THEN [tasks |-> ts, raised |-> FALSE, ncalls |-> Len(ts)]
    ELSE IF calculate_priority(ts[i]["duration"], ts[i]["urgency"]) = ZeroDivisionError
         THEN [tasks |-> ts, raised |-> TRUE, ncalls |-> i]
    ELSE AssignFrom(
             [ts EXCEPT ![i] = WithPriority(ts[i],
                 calculate_priority(ts[i]["duration"], ts[i]["urgency"]))], i + 1)

assign_priorities(ts) == AssignFrom(ts, 1)

\* the arguments of the first n calculate_priority invocations on ts
PriorityCalls(ts, n) ==
    [i \in 1..n |-> [duration |-> ts[i]["duration"], urgency |-> ts[i]["urgency"]]]

----------------------------------------------------------------------------
(* sort_tasks_by_priority: sorted(tasks, key=priority, reverse=True).      *)
(* sorted() is a stable ascending insertion sort (for short lists) by `<`  *)
(* on the key; with reverse=True it reverses the list before and after.    *)

Reverse(ts) == [i \in 1..Len(ts) |-> ts[Len(ts) + 1 - i]]

Key(task) == task["priority"].v

\* insert x after the last element of the ascending list whose key is <= x's
InsertAsc(ts, x) ==
    LET n == Cardinality({i \in 1..Len(ts) : ~(Key(x) < Key(ts[i]))})
    IN  SubSeq(ts, 1, n) \o <<x>> \o SubSeq(ts, n + 1, Len(ts))

RECURSIVE SortAscN(_, _)
SortAscN(ts, n) == IF n = 0 THEN <<>> ELSE InsertAsc(SortAscN(ts, n - 1), ts[n])

SortAsc(ts) == SortAscN(ts, Len(ts))

\* sorting ascending and reversing the result, without the first reversal
sort_tasks_by_priority_unstable(ts) == Reverse(SortAsc(ts))

sort_tasks_by_priority(ts) == Reverse(SortAsc(Reverse(ts)))

----------------------------------------------------------------------------
(* display_tasks *)

\* format(x, "<20") raises TypeError for None
FormatsPadded(x) == x.t \in {"str", "int", "bool", "float"}

\* the number of task lines printed before an f-string raises
RECURSIVE PrintableFrom(_, _)
PrintableFrom(ts, i) ==
    IF i > Len(ts) \/ ~FormatsPadded(ts[i]["name"]) THEN i - 1
    ELSE PrintableFrom(ts, i + 1)

display_tasks(ts) ==
    LET n == PrintableFrom(ts, 1)
        body == [i \in 1..n |-> TaskLine(i, ts[i])]
    IN  IF n = Len(ts)
        THEN [printed |-> <<Line("header", PyNone), Line("separator", PyNone)>> \o body
                          \o <<Line("separator", PyNone)>>,
              raised |-> FALSE]
        ELSE [printed |-> <<Line("header", PyNone), Line("separator", PyNone)>> \o body,
              raised |-> TRUE]

----------------------------------------------------------------------------
(* Task lists *)

\* the list built into main
BuiltinTasks ==
    << Task(PyStr("Finish report"), PyInt(120), PyInt(5)),
       Task(PyStr("Email client"), PyInt(15), PyInt(4)),
       Task(PyStr("Clean desk"), PyInt(20), PyInt(2)),
       Task(PyStr("Study Python"), PyInt(60), PyInt(3)),
       Task(PyStr("Team meeting"), PyInt(45), PyInt(5)) >>

\* tasks with every field present, duration > 0 and urgency in 1..5; the
\* first two score the same priority, the second has an empty name
GoodTasks ==
    { Task(PyStr("A"), PyInt(20), PyInt(2)),
      Task(PyStr(""), PyInt(60), PyInt(3)),
      Task(PyStr("B"), PyFloat(250), PyInt(5)),
      Task(PyStr("C"), PyBool(1), PyBool(1)),
      Task(PyNone, PyInt(15), PyInt(4)) }

\* tasks with a missing field, a bad duration or a bad urgency
BadTasks ==
    { Task(Absent, PyInt(20), PyInt(2)),
      Task(PyStr("A"), Absent, PyInt(2)),
      Task(PyStr("A"), PyInt(20), Absent),
      Task(Absent, Absent, Absent),
      Task(PyStr("A"), PyInt(0), Absent),
      Task(PyStr("A"), PyInt(0), PyInt(2)),
      Task(PyStr("A"), PyInt(-5), PyInt(2)),
      Task(PyStr("A"), PyFloat(0), PyInt(2)),
      Task(PyStr("A"), PyStr("20"), PyInt(2)),
      Task(PyStr("A"), PyNone, PyInt(2)),
      Task(PyStr("A"), PyInt(20), PyInt(0)),
      Task(PyStr("A"), PyInt(20), PyInt(6)),
      Task(PyStr("A"), PyInt(20), PyFloat(300)),
      Task(PyStr("A"), PyInt(20), PyStr("3")),
      Task(PyStr("A"), PyInt(0), PyInt(6)) }

\* every list of at most n tasks drawn from S
ListsUpTo(S, n) == UNION {[1..k -> S] : k \in 0..n}

\* the lists main is run on
MainLists == ListsUpTo(GoodTasks \cup BadTasks, MaxTasks) \cup {BuiltinTasks}

\* scored lists as the caller of the scorer and the sorter may hold them:
\* tasks that pass validation, some already carrying a priority
ApiTasks ==
    { t \in GoodTasks : FormatsPadded(t["name"]) }
    \cup { Task(PyStr("D"), PyInt(120), PyInt(5)),
           WithPriority(Task(PyStr("A"), PyInt(20), PyInt(2)), PyFloat(9999)),
           WithPriority(Task(PyStr("E"), PyInt(96), PyInt(1)), PyFloat(0)) }

ApiLists == ListsUpTo(ApiTasks, MaxApiLen)

\* the durations calculate_priority is called with: the integers up to
\* MaxDur, the larger integers at which urgency*2 + 60/duration has a 5 in
\* the third decimal and nothing after it, and some floats
CalcDurations ==
    { PyInt(d) : d \in (1..MaxDur) \cup {160, 480, 800, 2400, 4000, 12000} }
    \cup { PyFloat(25), PyFloat(50), PyFloat(250), PyFloat(750), PyFloat(3200) }

CalcUrgencies == { PyInt(u) : u \in 1..5 }

----------------------------------------------------------------------------
(* main *)

InitCommon ==
    /\ valid = "unset"
    /\ examined = 0
    /\ sorted_tasks = <<>>
    /\ out = <<>>
    /\ calls = <<>>
    /\ tasks0 = tasks
    /\ scored1 = <<>>
    /\ applied = 0
    /\ result = PyNone

Init ==
    /\ tasks \in MainLists
    /\ pc = "start"
    /\ arg_duration = PyNone
    /\ arg_urgency = PyNone
    /\ InitCommon

\* print(" Starting Task Prioritization System...")
MainStart ==
    /\ pc = "start"
    /\ out' = Append(out, Line("starting", PyNone))
    /\ pc' = "validate"
    /\ UNCHANGED <<tasks, valid, examined, sorted_tasks, calls, tasks0, scored1,
                   applied, arg_duration, arg_urgency, result>>

\* main going on to the scorer whatever validate_tasks returned
MainValidate_ignores_result ==
    /\ pc = "validate"
    /\ LET r == validate_tasks(tasks)
       IN  /\ out' = out \o r.printed
           /\ valid' = IF r.ok THEN "true" ELSE "false"
           /\ examined' = r.examined
           /\ pc' = "assign"
    /\ UNCHANGED <<tasks, sorted_tasks, calls, tasks0, scored1, applied,
                   arg_duration, arg_urgency, result>>

\* if not validate_tasks(tasks):
MainValidate ==
    /\ pc = "validate"
    /\ LET r == validate_tasks(tasks)
       IN  /\ out' = out \o r.printed
           /\ valid' = IF r.ok THEN "true" ELSE "false"
           /\ examined' = r.examined
           /\ pc' = IF r.ok THEN "assign" ELSE "invalid"
    /\ UNCHANGED <<tasks, sorted_tasks, calls, tasks0, scored1, applied,
                   arg_duration, arg_urgency, result>>

\* the invalid branch without its `return`
MainInvalid_no_return ==
    /\ pc = "invalid"
    /\ out' = Append(out, Line("invalid_exit", PyNone))
    /\ pc' = "assign"
    /\ UNCHANGED <<tasks, valid, examined, sorted_tasks, calls, tasks0, scored1,
                   applied, arg_duration, arg_urgency, result>>

\* print(" Task list invalid. Exiting program."); return
MainInvalid ==
    /\ pc = "invalid"
    /\ out' = Append(out, Line("invalid_exit", PyNone))
    /\ pc' = "done"
    /\ UNCHANGED <<tasks, valid, examined, sorted_tasks, calls, tasks0, scored1,
                   applied, arg_duration, arg_urgency, result>>

\* tasks_with_priorities = assign_priorities(tasks)
MainAssign ==
    /\ pc = "assign"
    /\ LET r == assign_priorities(tasks)
       IN  /\ tasks' = r.tasks
           /\ calls' = calls \o PriorityCalls(tasks, r.ncalls)
           /\ pc' = IF r.raised THEN "raised" ELSE "sort"
    /\ applied' = applied + 1
    /\ scored1' = tasks'
    /\ UNCHANGED <<valid, examined, sorted_tasks, out, tasks0, arg_duration,
                   arg_urgency, result>>

\* sorted_tasks = sort_tasks_by_priority(tasks_with_priorities)
MainSort ==
    /\ pc = "sort"
    /\ sorted_tasks' = sort_tasks_by_priority(tasks)
    /\ pc' = "display"
    /\ UNCHANGED <<tasks, valid, examined, out, calls, tasks0, scored1, applied,
                   arg_duration, arg_urgency, result>>

\* display_tasks(sorted_tasks)
MainDisplay ==
    /\ pc = "display"
    /\ LET r == display_tasks(sorted_tasks)
       IN  /\ out' = out \o r.printed
           /\ pc' = IF r.raised THEN "raised" ELSE "done"
    /\ UNCHANGED <<tasks, valid, examined, sorted_tasks, calls, tasks0, scored1,
                   applied, arg_duration, arg_urgency, result>>

Next ==
    \/ MainStart
    \/ MainValidate
    \/ MainInvalid
    \/ MainAssign
    \/ MainSort
    \/ MainDisplay

Spec == Init /\ [][Next]_vars

----------------------------------------------------------------------------
(* The scorer and the sorter called directly on a scored or unscored list *)

InitApi ==
    /\ tasks \in ApiLists
    /\ pc = "api"
    /\ arg_duration = PyNone
    /\ arg_urgency = PyNone
    /\ InitCommon

\* tasks = assign_priorities(tasks)
ApiAssign ==
    /\ pc = "api"
    /\ applied < MaxApply
    /\ LET r == assign_priorities(tasks)
       IN  /\ tasks' = r.tasks
           /\ calls' = calls \o PriorityCalls(tasks, r.ncalls)
           /\ pc' = IF r.raised THEN "raised" ELSE pc
    /\ applied' = applied + 1
    /\ scored1' = IF applied = 0 THEN tasks' ELSE scored1
    /\ UNCHANGED <<valid, examined, sorted_tasks, out, tasks0, arg_duration,
                   arg_urgency, result>>

\* sorted_tasks = sort_tasks_by_priority(tasks), on a scored list
ApiSort ==
    /\ pc = "api"
    /\ applied >= 1
    /\ sorted_tasks' = sort_tasks_by_priority(tasks)
    /\ pc' = "sorted"
    /\ UNCHANGED <<tasks, valid, examined, out, calls, tasks0, scored1, applied,
                   arg_duration, arg_urgency, result>>

NextApi ==
    \/ ApiAssign
    \/ ApiSort

SpecApi == InitApi /\ [][NextApi]_vars

----------------------------------------------------------------------------
(* calculate_priority called on one pair of arguments *)

InitCalc ==
    /\ tasks = <<>>
    /\ pc = "calc"
    /\ arg_duration \in CalcDurations
    /\ arg_urgency \in CalcUrgencies
    /\ InitCommon

\* result = calculate_priority(duration, urgency)
Calc ==
    /\ pc = "calc"
    /\ result' = calculate_priority(arg_duration, arg_urgency)
    /\ calls' = Append(calls, [duration |-> arg_duration, urgency |-> arg_urgency])
    /\ pc' = "returned"
    /\ UNCHANGED <<tasks, valid, examined, sorted_tasks, out, tasks0, scored1,
                   applied, arg_duration, arg_urgency>>

NextCalc == Calc

SpecCalc == InitCalc /\ [][NextCalc]_vars

----------------------------------------------------------------------------
(* Vocabulary of the properties.  "A number" and "an integer" are read as  *)
(* Python reads them, where a bool is an int.                              *)

HasAllFields(task) == {"name", "duration", "urgency"} \subseteq DOMAIN task

NumericType(x) == x.t \in {"int", "bool", "float"}

IntegerType(x) == x.t \in {"int", "bool"}

\* every field present, a numeric duration > 0, an integer urgency in 1..5
WellFormed(task) ==
    /\ HasAllFields(task)
    /\ NumericType(task["duration"]) /\ Hundredths(task["duration"]) > 0
    /\ IntegerType(task["urgency"]) /\ task["urgency"].v \in 1..5

BadDuration(task) ==
    "duration" \in DOMAIN task
    /\ (~NumericType(task["duration"]) \/ Hundredths(task["duration"]) <= 0)

BadUrgency(task) ==
    "urgency" \in DOMAIN task
    /\ (~IntegerType(task["urgency"]) \/ task["urgency"].v < 1 \/ task["urgency"].v > 5)

\* a field missing, a bad duration or a bad urgency
Defective(task) == ~HasAllFields(task) \/ BadDuration(task) \/ BadUrgency(task)

\* a name that is present but empty or not text
BlankName(task) ==
    "name" \in DOMAIN task /\ (task["name"].t # "str" \/ task["name"].s = "")

\* validate_tasks has returned
Validated == pc \notin {"start", "validate"}

Diagnostics(lines) ==
    SelectSeq(lines, LAMBDA l : l.kind \in {"missing_keys", "invalid_duration",
                                            "invalid_urgency"})

DisplayLines(lines) ==
    SelectSeq(lines, LAMBDA l : l.kind \in {"header", "separator", "task"})

----------------------------------------------------------------------------
(* C1: validate_tasks returns true, and prints no diagnostic, for every    *)
(* batch (the empty one included) whose tasks all have the three fields, a *)
(* numeric duration > 0 and an integer urgency in 1..5.                    *)
C1_ValidBatchAccepted ==
    (Validated /\ \A i \in 1..Len(tasks0) : WellFormed(tasks0[i]))
        => (valid = "true" /\ Diagnostics(out) = <<>>)

C1_Witness ==
    /\ Validated
    /\ valid = "true"
    /\ Len(tasks0) >= 2
    /\ \E i \in 1..Len(tasks0) : tasks0[i]["urgency"] = PyInt(5)

(* C2: validate_tasks returns false for every batch holding a task with a  *)
(* missing field, a duration that is not a number or is <= 0, or an        *)
(* urgency that is not an integer or is outside 1..5, wherever it sits.    *)
C2_DefectiveBatchRejected ==
    (Validated /\ \E i \in 1..Len(tasks0) : Defective(tasks0[i]))
        => valid = "false"

C2_Witness ==
    /\ Validated
    /\ valid = "false"
    /\ Len(tasks0) = 3
    /\ WellFormed(tasks0[1])
    /\ BadDuration(tasks0[2])
    /\ WellFormed(tasks0[3])

(* C3: when validation fails main prints the final "invalid, exiting" line *)
(* and returns; the scorer, the sorter and the presenter never run: no     *)
(* task gains a priority and no header, task line or footer is printed.    *)
C3_InvalidBatchAborts ==
    valid = "false" =>
        /\ pc \in {"invalid", "done"}
        /\ tasks = tasks0
        /\ \A i \in 1..Len(tasks) : "priority" \notin DOMAIN tasks[i]
        /\ calls = <<>>
        /\ applied = 0
        /\ sorted_tasks = <<>>
        /\ DisplayLines(out) = <<>>
        /\ \A i \in 1..Len(out) : out[i].kind = "invalid_exit" => (pc = "done" /\ i = Len(out))
        /\ pc = "done" => out[Len(out)].kind = "invalid_exit"

C3_Witness ==
    /\ pc = "done"
    /\ valid = "false"
    /\ Len(tasks0) >= 2
    /\ WellFormed(tasks0[1])
    /\ out[Len(out)].kind = "invalid_exit"

----------------------------------------------------------------------------
(* Exact decimal rounding, for comparison with calculate_priority *)

\* 100 * (urgency*2 + 60/duration) is ExactNum / ExactDen
ExactNum(duration, urgency) == 200 * urgency.v * Hundredths(duration) + 600000

ExactDen(duration) == Hundredths(duration)

\* num/den rounded to an integer, halves to the even neighbour
HalfEven(num, den) ==
    LET f == num \div den
        r == num % den
    IN  IF 2 * r < den THEN f
        ELSE IF 2 * r > den THEN f + 1
        ELSE IF f % 2 = 0 THEN f ELSE f + 1

\* urgency*2 + 60/duration has a 5 in the third decimal and nothing after
DecimalTie(duration, urgency) ==
    2 * (ExactNum(duration, urgency) % ExactDen(duration)) = ExactDen(duration)

\* 60/duration has a finite binary expansion, so the double is the exact value
BinaryExact(duration) ==
    \E k \in 0..20 : ShiftMod(6000, k, Hundredths(duration)) = 0

(* C4 as stated: for every duration > 0 and urgency in 1..5 the result is  *)
(* urgency*2 + 60/duration rounded to 2 decimals, every exact tie at the   *)
(* third decimal going to the even neighbour.                              *)
C4_RoundsHalfEven ==
    pc = "returned" =>
        result = PyFloat(HalfEven(ExactNum(arg_duration, arg_urgency),
                                  ExactDen(arg_duration)))

(* C4 amended: the result is urgency*2 + 60/duration rounded to 2          *)
(* decimals; an exact tie at the third decimal goes to the even neighbour  *)
(* when 60/duration is exact in binary (durations 32, 96, 160, 480), and   *)
(* to one of the two neighbours otherwise.                                 *)
C4_RoundsNearest ==
    pc = "returned" =>
        LET num == ExactNum(arg_duration, arg_urgency)
            den == ExactDen(arg_duration)
        IN  /\ result.t = "float"
            /\ (~DecimalTie(arg_duration, arg_urgency) \/ BinaryExact(arg_duration))
                   => result.v = HalfEven(num, den)
            /\ (DecimalTie(arg_duration, arg_urgency) /\ ~BinaryExact(arg_duration))
                   => result.v \in {num \div den, (num \div den) + 1}

C4_Witness ==
    /\ pc = "returned"
    /\ arg_duration = PyInt(96)
    /\ arg_urgency = PyInt(1)
    /\ DecimalTie(arg_duration, arg_urgency)
    /\ result = PyFloat(262)

----------------------------------------------------------------------------
Count(seq, x) == Cardinality({i \in 1..Len(seq) : seq[i] = x})

WithKey(seq, p) == SelectSeq(seq, LAMBDA t : t["priority"] = p)

(* C5: sort_tasks_by_priority returns a permutation of the scored list in  *)
(* non-increasing priority order, and tasks of equal priority keep the     *)
(* relative order they had in the input.                                   *)
C5_StableDescendingSort ==
    pc = "sorted" =>
        /\ Len(sorted_tasks) = Len(tasks)
        /\ \A i \in 1..Len(tasks) : Count(sorted_tasks, tasks[i]) = Count(tasks, tasks[i])
        /\ \A i \in 1..Len(sorted_tasks) : \A j \in 1..Len(sorted_tasks) :
               i < j => sorted_tasks[i]["priority"].v >= sorted_tasks[j]["priority"].v
        /\ \A i \in 1..Len(tasks) :
               WithKey(sorted_tasks, tasks[i]["priority"]) = WithKey(tasks, tasks[i]["priority"])

C5_Witness ==
    /\ pc = "sorted"
    /\ sorted_tasks # tasks
    /\ \E i \in 1..Len(tasks) : \E j \in 1..Len(tasks) :
           /\ i < j
           /\ tasks[i] # tasks[j]
           /\ tasks[i]["priority"] = tasks[j]["priority"]
    /\ \E i \in 1..Len(tasks) : tasks[i]["priority"] # tasks[1]["priority"]

----------------------------------------------------------------------------
ExpectedLine(rank, name, urgency, duration, priority) ==
    [kind |-> "task",
     arg |-> [rank |-> rank, name |-> PyStr(name), urgency |-> PyInt(urgency),
              duration |-> PyInt(duration), priority |-> PyFloat(priority)]]

ExpectedBuiltinOutput ==
    << [kind |-> "starting", arg |-> PyNone],
       [kind |-> "header", arg |-> PyNone],
       [kind |-> "separator", arg |-> PyNone],
       ExpectedLine(1, "Email client", 4, 15, 1200),
       ExpectedLine(2, "Team meeting", 5, 45, 1133),
       ExpectedLine(3, "Finish report", 5, 120, 1050),
       ExpectedLine(4, "Clean desk", 2, 20, 700),
       ExpectedLine(5, "Study Python", 3, 60, 700),
       [kind |-> "separator", arg |-> PyNone] >>

(* C6: main on the five built-in tasks passes validation, assigns the      *)
(* priorities 10.5, 12.0, 7.0, 7.0, 11.33 and displays ranks 1..5 in the   *)
(* order Email client, Team meeting, Finish report, Clean desk, Study      *)
(* Python.                                                                 *)
C6_BuiltinRun ==
    tasks0 = BuiltinTasks =>
        /\ Validated => valid = "true"
        /\ pc # "raised"
        /\ pc \in {"sort", "display", "done"} =>
               [i \in 1..Len(tasks) |-> tasks[i]["priority"]]
                   = <<PyFloat(1050), PyFloat(1200), PyFloat(700), PyFloat(700), PyFloat(1133)>>
        /\ pc = "done" => out = ExpectedBuiltinOutput

C6_Witness ==
    /\ tasks0 = BuiltinTasks
    /\ pc = "done"
    /\ Len(out) = 9

----------------------------------------------------------------------------
(* C7 as stated: a batch holding a task whose name is empty or not text,   *)
(* with a valid duration and urgency, is rejected.                         *)
C7_BlankNameRejected ==
    (Validated /\ \E i \in 1..Len(tasks0) : BlankName(tasks0[i]) /\ WellFormed(tasks0[i]))
        => valid = "false"

(* C7 amended: a batch is accepted only if every task has the three fields *)
(* present, a numeric duration > 0 and an integer urgency in 1..5; the     *)
(* name need only be present, so a batch whose tasks are otherwise valid   *)
(* is accepted even when a name is empty or not text.                      *)
C7_NameOnlyPresent ==
    Validated =>
        /\ valid = "true" => \A i \in 1..Len(tasks0) : WellFormed(tasks0[i])
        /\ ( /\ \A i \in 1..Len(tasks0) : WellFormed(tasks0[i])
             /\ \E i \in 1..Len(tasks0) : BlankName(tasks0[i]) )
               => valid = "true"

C7_Witness ==
    /\ Validated
    /\ valid = "true"
    /\ \E i \in 1..Len(tasks0) : tasks0[i]["name"] = PyStr("")
    /\ \E i \in 1..Len(tasks0) : tasks0[i]["name"] = PyNone

----------------------------------------------------------------------------
(* C8: assign_priorities is idempotent: after any further application      *)
(* every priority equals the one the first application set, whatever       *)
(* priority the task carried before; name, duration, urgency, the length   *)
(* and the order of the list never change.                                 *)
C8_AssignIdempotent ==
    applied >= 1 =>
        /\ pc # "raised"
        /\ Len(tasks) = Len(tasks0)
        /\ \A i \in 1..Len(tasks) :
               /\ DOMAIN tasks[i] = {"name", "duration", "urgency", "priority"}
               /\ \A k \in {"name", "duration", "urgency"} : tasks[i][k] = tasks0[i][k]
               /\ tasks[i]["priority"] = scored1[i]["priority"]
        /\ \A i \in 1..Len(tasks) : \A j \in 1..Len(tasks) :
               ( /\ tasks[i]["duration"] = tasks[j]["duration"]
                 /\ tasks[i]["urgency"] = tasks[j]["urgency"] )
                   => tasks[i]["priority"] = tasks[j]["priority"]

C8_Witness ==
    /\ applied >= 2
    /\ Len(tasks) >= 2
    /\ \E i \in 1..Len(tasks) :
           /\ "priority" \in DOMAIN tasks0[i]
           /\ tasks0[i]["priority"] # tasks[i]["priority"]

----------------------------------------------------------------------------
FirstDefective(ts) ==
    CHOOSE m \in 1..Len(ts) :
        Defective(ts[m]) /\ \A i \in 1..(m - 1) : ~Defective(ts[i])

ExpectedDiagnostic(task) ==
    IF ~HasAllFields(task) THEN [kind |-> "missing_keys", arg |-> task]
    ELSE IF BadDuration(task) THEN [kind |-> "invalid_duration", arg |-> task["name"]]
    ELSE [kind |-> "invalid_urgency", arg |-> task["name"]]

(* C9: validate_tasks looks at the tasks in list order and stops at the    *)
(* first invalid one: a failing batch gets exactly one diagnostic line,    *)
(* about the earliest invalid task and its first failing check in the      *)
(* order missing fields, duration, urgency; later tasks are not examined   *)
(* and the failure is the returned boolean, not an exception.              *)
C9_FirstFailureReported ==
    Validated =>
        IF \E i \in 1..Len(tasks0) : Defective(tasks0[i])
        THEN /\ valid = "false"
             /\ pc # "raised"
             /\ examined = FirstDefective(tasks0)
             /\ Diagnostics(out) = <<ExpectedDiagnostic(tasks0[FirstDefective(tasks0)])>>
        ELSE /\ examined = Len(tasks0)
             /\ Diagnostics(out) = <<>>

C9_Witness ==
    /\ Validated
    /\ Len(tasks0) = 3
    /\ WellFormed(tasks0[1])
    /\ BadDuration(tasks0[2]) /\ BadUrgency(tasks0[2])
    /\ ~HasAllFields(tasks0[3])
    /\ examined = 2
    /\ Diagnostics(out) = <<[kind |-> "invalid_duration", arg |-> tasks0[2]["name"]]>>

----------------------------------------------------------------------------
StageOrder ==
    { <<"start", "validate">>, <<"validate", "invalid">>, <<"validate", "assign">>,
      <<"invalid", "done">>, <<"assign", "sort">>, <<"sort", "display">>,
      <<"display", "done">>, <<"display", "raised">> }

C10_ScoredOnlyWhenValid ==
    /\ pc \in {"assign", "sort", "display", "raised"} => valid = "true"
    /\ calls # <<>> => valid = "true"
    /\ \A i \in 1..Len(calls) :
           NumericType(calls[i].duration) /\ Hundredths(calls[i].duration) > 0
    /\ \A i \in 1..Len(tasks) :
           "priority" \in DOMAIN tasks[i] => tasks[i]["priority"] # ZeroDivisionError
    /\ (pc = "display" \/ DisplayLines(out) # <<>>) =>
           /\ Len(calls) = Len(tasks0)
           /\ \A i \in 1..Len(tasks) : "priority" \in DOMAIN tasks[i]
           /\ Len(sorted_tasks) = Len(tasks)

StageStep == <<pc, pc'>> \in StageOrder

(* C10: in every run of main calculate_priority is invoked only after      *)
(* validate_tasks returned true for the whole batch, so never with a       *)
(* duration <= 0 and never dividing by zero; the stages run in the order   *)
(* validate, score, sort, display, and display starts only after every     *)
(* task has a priority.                                                    *)
C10_StagesInOrder ==
    [](C10_ScoredOnlyWhenValid) /\ [][StageStep]_vars

C10_Witness ==
    /\ pc = "done"
    /\ valid = "true"
    /\ Len(calls) >= 2
    /\ DisplayLines(out) # <<>>

====
